---- MODULE Spec2Model ----
(***************************************************************************)
(* Document signing workflow of Document_Sign_backend.                     *)
(*                                                                         *)
(* Persisted state: the Document collection, the Signature collection,    *)
(* the in-memory token store of TokenService.  Every HTTP request is a     *)
(* handler that runs in a request slot; a handler is cut into steps at the *)
(* awaits that reach the database, the PDF library or the mail transport.  *)
(* Each handler works on its own in-memory copy of the document (the       *)
(* result of Document.findById) and document.save() writes back only the   *)
(* paths the handler modified.                                             *)
(***************************************************************************)
EXTENDS Naturals, Sequences, FiniteSets

(* ------------------------------ bounds --------------------------------- *)
MaxOps == 4          \* requests served in one behaviour
MaxTime == 2         \* clock ticks; one tick is one token lifetime

Slots == {1, 2}      \* requests that can be in flight together
DocIds == {1}        \* documents created in one behaviour
Emails == {"a", "b"}
NoEmail == "none"

\* accounts: req.user of an authenticated request. The uploader becomes the
\* owner of the document; "other" is an account with the email of signer "a"
Users == {"owner", "admin", "other"}
NoUser == "nobody"
Uploader == "owner"

\* Document.js:228-262 userSchema: role and email of an account
Role(u) == IF u = "admin" THEN "admin" ELSE "user"

UserEmail(u) == IF u = "other" THEN "a" ELSE u

\* signer lists a request body can carry (uploadDocument, updateDocument)
SignerLists == {<<>>, <<"a">>, <<"a", "b">>}

(* --------------------------- TokenService ------------------------------ *)
\* tokenService.js:20  expiryInSeconds = 7 * 24 * 60 * 60, one clock tick
TokenTtl == 1

\* tokenService.js:20-33 storeToken: tokenStore.set(token, {...data, expiresAt, used: false})
storeToken(store, token, documentId, email, now) ==
    [t \in (DOMAIN store) \cup {token} |->
        IF t = token
        THEN [documentId |-> documentId, email |-> email,
              expiresAt |-> now + TokenTtl, used |-> FALSE]
        ELSE store[t]]

\* tokenService.js:36-58 verifyToken, the value returned: TRUE when token data
\* is returned, FALSE for null
verifyTokenOk_ignoreUsed(store, token, now) ==
    /\ token \in DOMAIN store
    /\ ~(store[token].expiresAt < now)

verifyTokenOk(store, token, now) ==
    /\ token \in DOMAIN store
    /\ ~(store[token].expiresAt < now)
    /\ ~store[token].used

verifyTokenStore_markUsed(store, token, now) ==
    IF token \in DOMAIN store /\ store[token].expiresAt < now
    THEN [t \in (DOMAIN store) \ {token} |-> store[t]]
    ELSE IF token \in DOMAIN store THEN [store EXCEPT ![token].used = TRUE]
    ELSE store

verifyTokenStore_dropUsed(store, token, now) ==
    IF token \in DOMAIN store /\ (store[token].expiresAt < now \/ store[token].used)
    THEN [t \in (DOMAIN store) \ {token} |-> store[t]]
    ELSE store

\* tokenService.js:43-47 verifyToken, its effect on the store: an expired
\* entry is deleted on lookup
verifyTokenStore(store, token, now) ==
    IF token \in DOMAIN store /\ store[token].expiresAt < now
    THEN [t \in (DOMAIN store) \ {token} |-> store[t]]
    ELSE store

verifyToken_anyEntry(store, token, now) ==
    IF token \in DOMAIN store
    THEN <<store[token].documentId, store[token].email>>
    ELSE <<>>

\* tokenService.js:36-58 verifyToken, what it returns: {documentId, email} of
\* the entry, null (the empty tuple) when the token is absent, expired or used
verifyToken(store, token, now) ==
    IF verifyTokenOk(store, token, now)
    THEN <<store[token].documentId, store[token].email>>
    ELSE <<>>

invalidateToken_toggle(store, token) ==
    IF token \in DOMAIN store
    THEN [store EXCEPT ![token].used = ~@]
    ELSE store

\* tokenService.js:61-70 invalidateToken
invalidateToken_noop(store, token) == store

invalidateToken(store, token) ==
    IF token \in DOMAIN store
    THEN [store EXCEPT ![token].used = TRUE]
    ELSE store

cleanupExpiredTokens_dropUsed(store, now) ==
    [t \in {u \in DOMAIN store : ~(store[u].expiresAt < now) /\ ~store[u].used}
        |-> store[t]]

\* tokenService.js:84-92 cleanupExpiredTokens
cleanupExpiredTokens(store, now) ==
    [t \in {u \in DOMAIN store : ~(store[u].expiresAt < now)} |-> store[t]]

\* an ObjectId is an object. Document.create makes the instance that
\* uploadDocument hands to storeToken as data.documentId (part_004:64-67) and
\* the Map keeps that instance; every Document.findById makes a new instance
\* with the same value (part_002:80)
CreatedId(d) == [value |-> d, instance |-> "create"]

FoundId(d) == [value |-> d, instance |-> "findById"]

NoToken == 0

\* tokenService.js:73-81 getToken: the first entry in insertion order with
\* data.documentId === documentId (=== on two objects: the same instance),
\* the same email and used = false; null when there is none. expiresAt is
\* not read
getToken(store, documentId, email) ==
    LET hits == {t \in DOMAIN store :
                    /\ CreatedId(store[t].documentId) = documentId
                    /\ store[t].email = email
                    /\ ~store[t].used} IN
    IF hits = {} THEN NoToken ELSE CHOOSE t \in hits : \A u \in hits : t <= u

(* ----------------------------- Document -------------------------------- *)
\* Document.js:3-76 documentSchema: the fields the workflow reads and writes.
\* born is TRUE once Document.create has allocated the _id, exists is FALSE
\* before that and after findByIdAndDelete; ver is the version key __v that
\* save() uses for array updates.
NoDoc ==
    [born |-> FALSE, exists |-> FALSE, owner |-> NoUser, status |-> "draft",
     signers |-> <<>>, signatures |-> <<>>, signedFile |-> FALSE,
     rejectionReason |-> FALSE, ver |-> 0]

\* Document.js:42-54 a signers entry of a new document: signed defaults to false
NewSigners(list) == [i \in 1..Len(list) |-> [email |-> list[i], signed |-> FALSE]]

\* part_004:41-58 Document.create in uploadDocument
NewDocument(list) ==
    [born |-> TRUE, exists |-> TRUE, owner |-> Uploader, status |-> "draft",
     signers |-> NewSigners(list), signatures |-> <<>>, signedFile |-> FALSE,
     rejectionReason |-> FALSE, ver |-> 0]

\* signatureController.js:29,157 document.signers.find(s => s.email === email):
\* the index of the first entry with that email, 0 when there is none
findSigner(signers, email) ==
    IF \E i \in 1..Len(signers) : signers[i].email = email
    THEN CHOOSE i \in 1..Len(signers) :
            /\ signers[i].email = email
            /\ \A j \in 1..(i - 1) : signers[j].email # email
    ELSE 0

\* signatureController.js:79,201 document.signers.every(s => s.signed)
allSigned(signers) == \A i \in 1..Len(signers) : signers[i].signed

SubmitCheck_noSignedCheck(doc, email, bodyOk) ==
    IF ~doc.exists THEN "err404"
    ELSE IF doc.status # "sent" THEN "err400"
    ELSE IF findSigner(doc.signers, email) = 0 THEN "err403"
    ELSE IF ~bodyOk THEN "err400"
    ELSE "ok"

\* signatureController.js:19-55 and 147-176: the checks of a submission on the
\* document it has read; bodyOk is FALSE when the request carries no usable
\* signature data or position
SubmitCheck(doc, email, bodyOk) ==
    IF ~doc.exists THEN "err404"
    ELSE IF doc.status # "sent" THEN "err400"
    ELSE IF findSigner(doc.signers, email) = 0 THEN "err403"
    ELSE IF doc.signers[findSigner(doc.signers, email)].signed THEN "err400"
    ELSE IF ~bodyOk THEN "err400"
    ELSE "ok"

\* responseFormatter.js:129-134 the indexes of signatureSchema. The same key
\* {documentId, signerEmail} is declared twice, first plain and then unique;
\* the database builds indexes in this order and refuses a second index on a
\* key it already indexes with other options, so the unique constraint exists
\* only in a deployment whose collection already carried it ("built"); in
\* the others it is "missing". SameKey: the collection holds a record with the
\* key; DuplicateKey: the insert of a second one is refused
SameKey(signatures, documentId, email) ==
    \E i \in 1..Len(signatures) :
        /\ signatures[i].documentId = documentId
        /\ signatures[i].signerEmail = email

DuplicateKey(signatures, unique, documentId, email) ==
    /\ unique = "built"
    /\ SameKey(signatures, documentId, email)

\* signatureController.js:83-86 and 205-208: the second argument of
\* generateSignedPDF is document.signatures of the handler's copy, the array
\* of ObjectIds (Document.js:55-60); the handler reads no Signature and does
\* not populate the path
AssemblyInput(local) ==
    [i \in 1..Len(local.signatures) |->
        [ref |-> local.signatures[i], populated |-> FALSE]]

\* pdfService.js:26-107 generateSignedPDF(originalPath, signatures), called
\* with document.signatures, the ObjectIds pushed at signatureController.js:70
\* and 191. An ObjectId has no position, so line 40 (position.pageNumber)
\* throws for the first element and the catch at 103 rethrows; with an empty
\* list the outcome is that of reading and writing the files (ioOk).
generateSignedPDF(signatureIds, ioOk) ==
    IF Len(signatureIds) > 0 THEN "error"
    ELSE IF ioOk THEN "ok" ELSE "error"

\* generateSignedPDF on Signature records. A record: pageNumber of its
\* position; image: what signatureData decodes to ("png", "jpg", or "bad"
\* when neither embedPng nor embedJpg takes it); drawable: FALSE when
\* drawing the signer's name throws
MaxPages == 2        \* pages of an original
MaxSigs == 2         \* Signature records handed to one assembly

\* pdfService.js:37-88 one pass of the loop. getPage (40) is outside the
\* inner try: a page the document does not have throws out of the loop. In
\* the inner try: no image -> drawTextSignature and continue (47-56); image
\* -> drawImage, then the name and date (60-83); whatever throws there is
\* logged and the loop goes on (85-88)
drawSignature(pageCount, sig) ==
    IF sig.pageNumber \notin 1..pageCount THEN "throw"
    ELSE IF sig.image = "bad"
         THEN IF sig.drawable THEN "text" ELSE "nothing"
    ELSE IF sig.drawable THEN "image" ELSE "imageOnly"

\* pdfService.js:26-107: the loop, then save and writeFileSync; the outer
\* catch turns whatever left the loop into AppError('Error generating signed
\* PDF', 500) and no file is returned
generateSignedPDFOf(pageCount, sigs) ==
    LET drawn == [i \in 1..Len(sigs) |-> drawSignature(pageCount, sigs[i])] IN
    IF \E i \in 1..Len(sigs) : drawn[i] = "throw"
    THEN [file |-> FALSE, drawn |-> <<>>]
    ELSE [file |-> TRUE, drawn |-> drawn]

NoAssembly ==
    [pageCount |-> 0, signatures |-> <<>>, done |-> FALSE, file |-> FALSE,
     drawn |-> <<>>]

(* ------------------------- document.save() ----------------------------- *)
\* signatureController.js:70-76 and 191-198: save() after
\* document.signatures.push(id) and signer.signed = true sends
\* {$push: signatures, $set: signers.<i>.signed} with the version key in the
\* filter; it fails when the document is gone or its version has moved.
SaveSubmissionOk(persisted, local) ==
    persisted.exists /\ persisted.ver = local.ver

SaveSubmission(persisted, idx, sigId) ==
    [persisted EXCEPT !.signatures = Append(@, sigId),
                      !.signers[idx].signed = TRUE]

\* part_004:202-203, 246-248: save() of a changed status sends {$set: status}
SaveStatus(persisted, status) == [persisted EXCEPT !.status = status]

\* part_004:246-248 rejectDocument
SaveRejected(persisted) ==
    [persisted EXCEPT !.status = "rejected", !.rejectionReason = TRUE]

\* part_004:164-172 updateDocument: save() of a replaced signers array sends
\* {$set: signers, $inc: __v} with the version key in the filter
SaveUpdateOk(persisted, local) ==
    persisted.exists /\ persisted.ver = local.ver

SaveUpdate(persisted, list) ==
    [persisted EXCEPT !.signers = NewSigners(list), !.ver = @ + 1]

\* signatureController.js:83-101 and 205-222: the handler goes on to set
\* signedFile and status only when generateSignedPDF returned; its exception
\* leaves the handler (catchAsync answers with the error)
AfterAssembly_swallow(outcome) == "saveSigned"

AfterAssembly(outcome) == IF outcome = "ok" THEN "saveSigned" ELSE "done"

\* signatureController.js:94-101 and 215-222: save() of signedFile and status
SaveSigned(persisted) ==
    [persisted EXCEPT !.status = "signed", !.signedFile = TRUE]

\* part_004:205-217, 250-256 and signatureController.js:103-108, 221-229: a
\* notification that throws leaves the handler through catchAsync; nothing
\* that was saved before it is written again
AfterNotify_rollback(persisted, delivered) ==
    IF delivered THEN persisted ELSE [persisted EXCEPT !.status = "draft"]

AfterNotify(persisted, delivered) == persisted

(* ------------------------------ AuditLog ------------------------------- *)
\* Document.js:157-171 the enum of auditLogSchema.action
AuditActions ==
    {"document_created", "document_updated", "document_viewed", "document_sent",
     "document_signed", "document_rejected", "signature_added",
     "signature_removed", "email_sent", "token_generated", "token_verified"}

\* Document.js:145-195 AuditLog.create(data): userId is required, action must
\* be in the enum, and the write needs the store (up)
auditCreate(userId, action, up) ==
    IF up /\ userId # NoUser /\ action \in AuditActions THEN "written" ELSE "error"

\* Document.js:204-211 auditLogSchema.statics.log: try { create } catch {
\* console.error }, the error is not thrown again
log_rethrow(created) == IF created = "written" THEN "written" ELSE "thrown"

log(created) == IF created = "written" THEN "written" ELSE "lost"

\* the answer of a handler whose work is done and whose last call is
\* await AuditLog.log(...): res.status(200 or 201) unless that call threw
Respond(logged) == IF logged = "thrown" THEN "err500" ELSE "ok"

(* -------------------------- verifySignature ---------------------------- *)
MaxContent == 3      \* file contents an upload can have: 1..MaxContent
MaxDrawn == 2        \* signatures drawn into one signed file

NoFile == 0

\* crypto.createHash('sha256').update(buffer).digest('hex'): injective
sha256(content) == <<"sha256", content>>

\* pdfService.js:95-101 the bytes generateSignedPDF writes: the pages of the
\* original with n signatures drawn, serialised by pdfDoc.save(); they are
\* not the bytes of any upload
SignedBytes(original, n) == original + MaxContent * n

FileContents == 1..(MaxContent * (MaxDrawn + 1))

\* original: the uploaded bytes; fileHash: metadata.fileHash; signedFile: the
\* bytes now at signedFile.path; written: the bytes completion wrote there;
\* documentIntact: the last answer of verifySignature
NoIntegrity ==
    [original |-> NoFile, fileHash |-> sha256(NoFile), signedFile |-> NoFile,
     written |-> NoFile, documentIntact |-> "none"]

\* part_004:34-56 uploadDocument: metadata.fileHash is the hash of the
\* uploaded original
Uploaded(original) ==
    [NoIntegrity EXCEPT !.original = original, !.fileHash = sha256(original)]

\* signatureController.js:317-327 verifySignature: without a signed file the
\* answer is true, with one the hash of its bytes is compared with
\* metadata.fileHash
documentIntact(fileHash, signedFile) ==
    IF signedFile = NoFile THEN TRUE ELSE sha256(signedFile) = fileHash

(* ------------------------------ state ---------------------------------- *)
VARIABLES
    docs,         \* Document collection: DocIds -> document
    signatures,   \* Signature collection, in insertion order
    unique,       \* the unique index on Signature {documentId, signerEmail}:
                  \* "built", "missing", or "unknown" until an insert meets it
    tokenStore,   \* TokenService.tokenStore: token -> entry
    minted,       \* number of tokens generated so far
    now,          \* Date.now()
    req,          \* request slots: the handler in flight and its local variables
    mails,        \* notifications handed to the mail transport
    hist,         \* what has happened: counters the properties read
    ops,          \* requests served
    integrity,    \* verifySignature: a signed file on disk and the stored hash
    call,         \* TokenService: the last call made on it directly
    assembly      \* PDFService: a call of generateSignedPDF and what it made

vars == <<docs, signatures, unique, tokenStore, minted, now, req, mails, hist, ops,
          integrity, call, assembly>>

Tokens == 1..3       \* token values a request can present; 3 is never minted

\* no call yet. op, token: the call; at: Date.now() at the call; before,
\* after: the token store around it; result: what it returned; issued: the
\* storeToken calls made so far; spent: the issued tokens that invalidateToken
\* was called with
NoCall ==
    [op |-> "none", token |-> NoToken, at |-> 0, before |-> <<>>, after |-> <<>>,
     result |-> <<>>, issued |-> <<>>, spent |-> {}]

Idle ==
    [pc |-> "idle", kind |-> "none", user |-> NoUser, audit |-> "none",
     doc |-> 0, email |-> NoEmail, token |-> 0,
     local |-> NoDoc, idx |-> 0, sig |-> 0, allSigned |-> FALSE,
     pdf |-> "none", res |-> "none"]

\* a new request is served in the lowest slot that holds no handler in flight
Free(s) ==
    /\ req[s].pc \in {"idle", "done"}
    /\ \A r \in Slots : r < s => req[r].pc \notin {"idle", "done"}

Cap(n) == IF n < 2 THEN n + 1 ELSE 2

InitWorkflow ==
    /\ docs = [d \in DocIds |-> NoDoc]
    /\ signatures = <<>>
    /\ tokenStore = <<>>
    /\ minted = 0
    /\ now = 0
    /\ req = [s \in Slots |-> Idle]
    /\ mails = {}
    /\ hist = [pdfCalls |-> [d \in DocIds |-> 0],
               pdfFailed |-> [d \in DocIds |-> FALSE],
               signedWrites |-> [d \in DocIds |-> 0],
               tokOk |-> [t \in Tokens |-> 0],
               verifiedOk |-> [t \in Tokens |-> 0],
               invalidated |-> {}]
    /\ ops = 0
    /\ call = NoCall

\* which deployment it is shows at the first insert of a key that is
\* already stored, and not before
Init ==
    InitWorkflow /\ unique = "unknown" /\ integrity = NoIntegrity /\ assembly = NoAssembly

\* a handler answers: its copy of the document is released; the slot keeps
\* what the request was and how it ended until it is reused
Answer(r, res) ==
    [Idle EXCEPT !.pc = "done", !.res = res, !.kind = r.kind,
                 !.user = IF res = "err403" THEN r.user ELSE NoUser,
                 !.audit = r.audit, !.doc = r.doc, !.idx = r.idx, !.sig = r.sig,
                 !.pdf = r.pdf]

\* slot s takes the record rec; the answer of an earlier request is dropped,
\* only the latest answer is kept
Serve(s, rec) ==
    [r \in Slots |-> IF r = s THEN rec
                     ELSE IF req[r].pc = "done" THEN Idle ELSE req[r]]

Done(s, res) == Serve(s, Answer(req[s], res))

\* the action each handler passes to AuditLog.log: part_004:178, 223, 262,
\* 339 and signatureController.js:115, 236
AuditAction(kind) ==
    IF kind = "update" THEN "document_updated"
    ELSE IF kind = "send" THEN "document_sent"
    ELSE IF kind = "reject" THEN "document_rejected"
    ELSE IF kind = "delete" THEN "document_deleted"
    ELSE "signature_added"

\* the end of a handler that succeeded: AuditLog.log, then the response
Audited(r, action, up) ==
    LET logged == log(auditCreate(r.user, action, up)) IN
    [Answer(r, Respond(logged)) EXCEPT !.audit = logged]

\* a request that is served without a slot: the earlier answer is dropped
Cleared == [r \in Slots |-> IF req[r].pc = "done" THEN Idle ELSE req[r]]

(* ------------------------ documentController --------------------------- *)
\* part_004:60-68 the loop of uploadDocument: one generateSigningToken and one
\* storeToken per signers entry
RECURSIVE StoreTokens(_, _, _, _, _)
StoreTokens(store, d, list, first, t) ==
    IF list = <<>> THEN store
    ELSE StoreTokens(storeToken(store, first, d, Head(list), t), d, Tail(list), first + 1, t)

\* part_004:14-87 uploadDocument
uploadDocument(d, list) ==
    /\ ops < MaxOps
    /\ ~docs[d].born
    /\ \A e \in DocIds : e < d => docs[e].born
    /\ docs' = [docs EXCEPT ![d] = NewDocument(list)]
    /\ tokenStore' = StoreTokens(tokenStore, d, list, minted + 1, now)
    /\ minted' = minted + Len(list)
    /\ ops' = ops + 1
    /\ req' = Cleared
    /\ UNCHANGED <<signatures, unique, now, mails, hist, integrity, call, assembly>>

\* part_002:78-95 checkDocumentOwnership: Document.findById, 404 without a
\* document, 403 unless req.user is the owner or has the role admin
checkDocumentOwnership_anyone(doc, u) ==
    IF ~doc.exists THEN "err404" ELSE "ok"

checkDocumentOwnership(doc, u) ==
    IF ~doc.exists THEN "err404"
    ELSE IF doc.owner # u /\ Role(u) # "admin" THEN "err403"
    ELSE "ok"

\* req.user of a document handler. The owner and an administrator pass the
\* same gate and nothing after the gate reads which of the two it is (the
\* audit call needs an id, any id): a request of either is kept as the owner's
Actor(doc, u) == IF doc.owner = u \/ Role(u) = "admin" THEN doc.owner ELSE u

\* documentRoutes.js:16-23 checkDocumentOwnership, then the first lines of the
\* handler on req.document: the status checks run without an await between
\* the middleware's findById and them
Begin(s, kind, u, d, check, pc) ==
    /\ ops < MaxOps
    /\ Free(s)
    /\ ops' = ops + 1
    /\ LET r == [Idle EXCEPT !.kind = kind, !.user = Actor(docs[d], u), !.doc = d,
                             !.local = docs[d], !.pc = pc]
           allowed == checkDocumentOwnership(docs[d], u)
           first == IF allowed # "ok" THEN allowed ELSE check IN
       req' = Serve(s, IF first = "ok" THEN r ELSE Answer(r, first))
    /\ UNCHANGED <<docs, signatures, unique, tokenStore, minted, now, mails, hist, integrity, call, assembly>>

SendCheck_noSignerCheck(doc) ==
    IF ~doc.exists THEN "err404"
    ELSE IF doc.status # "draft" THEN "err400"
    ELSE "ok"

\* part_004:190-199 sendDocument up to its first write
SendCheck(doc) ==
    IF ~doc.exists THEN "err404"
    ELSE IF doc.status # "draft" THEN "err400"
    ELSE IF Len(doc.signers) = 0 THEN "err400"
    ELSE "ok"

RejectCheck_anyStatus(doc) ==
    IF ~doc.exists THEN "err404" ELSE "ok"

\* part_004:238-244 rejectDocument up to its first write
RejectCheck(doc) ==
    IF ~doc.exists THEN "err404"
    ELSE IF doc.status # "sent" THEN "err400"
    ELSE "ok"

\* part_004:152-159 and 311-317: updateDocument and deleteDocument up to
\* their first write
DraftCheck(doc) ==
    IF ~doc.exists THEN "err404"
    ELSE IF doc.status # "draft" THEN "err400"
    ELSE "ok"

sendDocumentBegin(s, u, d) ==
    Begin(s, "send", u, d, SendCheck(docs[d]), "save")

rejectDocumentBegin(s, u, d) ==
    Begin(s, "reject", u, d, RejectCheck(docs[d]), "save")

updateDocumentBegin(s, u, d) ==
    Begin(s, "update", u, d, DraftCheck(docs[d]), "save")

deleteDocumentBegin(s, u, d) ==
    Begin(s, "delete", u, d, DraftCheck(docs[d]), "save")

\* part_004:202-203 sendDocument: document.status = 'sent'; await document.save()
sendDocumentSave(s) ==
    /\ req[s].pc = "save" /\ req[s].kind = "send"
    /\ IF docs[req[s].doc].exists
       THEN /\ docs' = [docs EXCEPT ![req[s].doc] = SaveStatus(@, "sent")]
            /\ req' = Serve(s, [req[s] EXCEPT !.pc = "notify", !.local.status = "sent"])
       ELSE /\ docs' = docs
            /\ req' = Done(s, "err500")
    /\ UNCHANGED <<signatures, unique, tokenStore, minted, now, mails, hist, ops, integrity, call, assembly>>

\* part_004:205-235 sendDocument: one signing request per signer, each awaited,
\* its signing URL made of getToken(document._id, signer.email); the first k
\* are delivered and, when k is short of the list, the next throws; after the
\* last one AuditLog.log and the response
sendDocumentNotify(s) ==
    /\ req[s].pc = "notify" /\ req[s].kind = "send"
    /\ \E k \in 0..Len(req[s].local.signers), up \in BOOLEAN :
          LET delivered == (k = Len(req[s].local.signers)) IN
          /\ mails' = mails \cup
                {<<"request", req[s].local.signers[i].email,
                   getToken(tokenStore, FoundId(req[s].doc),
                            req[s].local.signers[i].email)>> : i \in 1..k}
          /\ docs' = [docs EXCEPT ![req[s].doc] = AfterNotify(@, delivered)]
          /\ req' = IF delivered
                    THEN Serve(s, Audited(req[s], AuditAction(req[s].kind), up))
                    ELSE Done(s, "err500")
    /\ UNCHANGED <<signatures, unique, tokenStore, minted, now, hist, ops, integrity, call, assembly>>

\* part_004:246-248 rejectDocument: status, rejectionReason, save()
rejectDocumentSave(s) ==
    /\ req[s].pc = "save" /\ req[s].kind = "reject"
    /\ IF docs[req[s].doc].exists
       THEN /\ docs' = [docs EXCEPT ![req[s].doc] = SaveRejected(@)]
            /\ req' = Serve(s, [req[s] EXCEPT !.pc = "notify", !.local.status = "rejected"])
       ELSE /\ docs' = docs
            /\ req' = Done(s, "err500")
    /\ UNCHANGED <<signatures, unique, tokenStore, minted, now, mails, hist, ops, integrity, call, assembly>>

\* part_004:250-271 rejectDocument: sendRejectionNotification({to:
\* document.owner.email}); owner is the unpopulated ObjectId, so the mail has
\* no recipient and the transport rejects it
rejectDocumentNotify(s) ==
    /\ req[s].pc = "notify" /\ req[s].kind = "reject"
    /\ docs' = [docs EXCEPT ![req[s].doc] = AfterNotify(@, FALSE)]
    /\ req' = Done(s, "err500")
    /\ UNCHANGED <<signatures, unique, tokenStore, minted, now, mails, hist, ops, integrity, call, assembly>>

\* part_004:161-187 updateDocument: document.signers = signers; save().
\* list is the signers array of req.body, read by nothing before this write
updateDocumentSave(s, list) ==
    /\ req[s].pc = "save" /\ req[s].kind = "update"
    /\ IF SaveUpdateOk(docs[req[s].doc], req[s].local)
       THEN /\ docs' = [docs EXCEPT ![req[s].doc] = SaveUpdate(@, list)]
            /\ \E up \in BOOLEAN :
                  req' = Serve(s, Audited(req[s], AuditAction(req[s].kind), up))
       ELSE /\ docs' = docs
            /\ req' = Done(s, "err500")
    /\ UNCHANGED <<signatures, unique, tokenStore, minted, now, mails, hist, ops, integrity, call, assembly>>

\* part_004:319-348 deleteDocument: Document.findByIdAndDelete, then
\* AuditLog.log with the action 'document_deleted'
deleteDocumentSave(s) ==
    /\ req[s].pc = "save" /\ req[s].kind = "delete"
    /\ docs' = [docs EXCEPT ![req[s].doc].exists = FALSE]
    /\ \E up \in BOOLEAN :
          req' = Serve(s, Audited(req[s], AuditAction(req[s].kind), up))
    /\ UNCHANGED <<signatures, unique, tokenStore, minted, now, mails, hist, ops, integrity, call, assembly>>

(* ------------------------ signatureController -------------------------- *)
\* signatureRoutes.js:13-16 protect, then signatureController.js:15-55
\* addSignature: documentId and signerEmail are read from req.body,
\* Document.findById and the checks; req.user is read only by the audit call
addSignatureBegin(s, u, d, email, bodyOk) ==
    /\ ops < MaxOps
    /\ Free(s)
    /\ ops' = ops + 1
    /\ LET check == SubmitCheck(docs[d], email, bodyOk)
           r == [Idle EXCEPT !.kind = "addSignature", !.user = u, !.doc = d,
                             !.email = email,
                             !.local = docs[d],
                             !.idx = findSigner(docs[d].signers, email),
                             !.pc = "create"] IN
       req' = Serve(s, IF check = "ok" THEN r ELSE Answer(r, check))
    /\ UNCHANGED <<docs, signatures, unique, tokenStore, minted, now, mails, hist, integrity, call, assembly>>

\* signatureController.js:134-144 signWithToken: tokenService.verifyToken
signWithTokenBegin(s, t) ==
    /\ ops < MaxOps
    /\ Free(s)
    /\ ops' = ops + 1
    /\ tokenStore' = verifyTokenStore(tokenStore, t, now)
    /\ IF verifyTokenOk(tokenStore, t, now)
       THEN /\ req' = Serve(s,
                        [Idle EXCEPT !.kind = "signWithToken", !.token = t,
                                     !.doc = tokenStore[t].documentId,
                                     !.email = tokenStore[t].email,
                                     !.pc = "read"])
            /\ hist' = [hist EXCEPT !.verifiedOk[t] = Cap(@)]
       ELSE /\ req' = Serve(s, Answer([Idle EXCEPT !.kind = "signWithToken"], "err400"))
            /\ hist' = hist
    /\ UNCHANGED <<docs, signatures, unique, minted, now, mails, integrity, call, assembly>>

\* signatureController.js:145-176 signWithToken: Document.findById and the checks
signWithTokenRead(s, bodyOk) ==
    /\ req[s].pc = "read" /\ req[s].kind = "signWithToken"
    /\ LET d == req[s].doc
           check == SubmitCheck(docs[d], req[s].email, bodyOk) IN
       req' = IF check = "ok"
              THEN Serve(s, [req[s] EXCEPT
                             !.local = docs[d],
                             !.idx = findSigner(docs[d].signers, req[s].email),
                             !.pc = "create"])
              ELSE Done(s, check)
    /\ UNCHANGED <<docs, signatures, unique, tokenStore, minted, now, mails, hist, ops,
                   integrity, call, assembly>>

\* signatureController.js:57-74 and 178-196: Signature.create, then, with no
\* await that reaches outside the process, signatures.push, signer.signed =
\* true and (token path) tokenService.invalidateToken
SignatureCreate(s) ==
    /\ req[s].pc = "create"
    /\ unique' \in IF unique = "unknown" /\ SameKey(signatures, req[s].doc, req[s].email)
                   THEN {"built", "missing"} ELSE {unique}
    /\ IF DuplicateKey(signatures, unique', req[s].doc, req[s].email)
       THEN /\ req' = Done(s, "err500")
            /\ UNCHANGED <<signatures, tokenStore, hist>>
       ELSE /\ signatures' = Append(signatures,
                    [documentId |-> req[s].doc, signerEmail |-> req[s].email,
                     via |-> req[s].kind])
            /\ req' = Serve(s, [req[s] EXCEPT
                   !.pc = "save",
                   !.sig = Len(signatures) + 1,
                   !.local.signatures = Append(@, Len(signatures) + 1),
                   !.local.signers[req[s].idx].signed = TRUE])
            /\ IF req[s].kind = "signWithToken"
               THEN /\ tokenStore' = invalidateToken(tokenStore, req[s].token)
                    /\ hist' = [hist EXCEPT !.invalidated = @ \cup {req[s].token}]
               ELSE UNCHANGED <<tokenStore, hist>>
    /\ UNCHANGED <<docs, minted, now, mails, ops, integrity, call, assembly>>

\* signatureController.js:76-81 and 198-203: document.save(), then allSigned
\* on the handler's own copy; without completion the handler goes to
\* AuditLog.log (112, 233: userId is req.user.id, null on the token path) and
\* answers. The save is a write of its own, after Signature.create has
\* returned: it is rejected when the store does not take it (stored = FALSE)
\* or the version filter does not match, and the handler has no catch
SignatureSave(s) ==
    /\ req[s].pc = "save" /\ req[s].kind \in {"addSignature", "signWithToken"}
    /\ \E stored \in BOOLEAN : LET d == req[s].doc IN
       IF stored /\ SaveSubmissionOk(docs[d], req[s].local)
       THEN /\ docs' = [docs EXCEPT ![d] =
                          SaveSubmission(@, req[s].idx, req[s].sig)]
            /\ IF allSigned(req[s].local.signers)
               THEN /\ req' = Serve(s, [req[s] EXCEPT !.pc = "pdf", !.allSigned = TRUE])
                    /\ hist' = hist
               ELSE \E up \in BOOLEAN :
                      LET answer == Audited(req[s], AuditAction(req[s].kind), up) IN
                      /\ req' = Serve(s, answer)
                      /\ hist' = IF req[s].kind = "signWithToken" /\ answer.res = "ok"
                                 THEN [hist EXCEPT !.tokOk[req[s].token] = Cap(@)]
                                 ELSE hist
       ELSE /\ docs' = docs
            /\ req' = Done(s, "err500")
            /\ hist' = hist
    /\ UNCHANGED <<signatures, unique, tokenStore, minted, now, mails, ops, integrity, call, assembly>>

\* signatureController.js:81-109 and 203-230: completion.  pdf:
\* generateSignedPDF and copyFileSync; saveSigned: signedFile, status, save();
\* notify: sendDocumentSignedNotification({to: document.owner.email}) with the
\* unpopulated owner, a mail without recipient
Completion(s) ==
    /\ req[s].pc \in {"pdf", "saveSigned", "notify"}
    /\ req[s].kind \in {"addSignature", "signWithToken"}
    /\ LET d == req[s].doc IN
       IF req[s].pc = "pdf"
       THEN \E ioOk \in BOOLEAN :
              LET outcome == generateSignedPDF(AssemblyInput(req[s].local), ioOk)
                  next == AfterAssembly(outcome) IN
              /\ req' = IF next = "done"
                        THEN [Done(s, "err500") EXCEPT ![s].pdf = outcome]
                        ELSE Serve(s, [req[s] EXCEPT !.pc = next, !.pdf = outcome])
              /\ hist' = [hist EXCEPT !.pdfCalls[d] = Cap(@),
                                      !.pdfFailed[d] = @ \/ (outcome # "ok")]
              /\ docs' = docs
       ELSE IF req[s].pc = "saveSigned"
       THEN IF docs[d].exists
            THEN /\ docs' = [docs EXCEPT ![d] = SaveSigned(@)]
                 /\ req' = Serve(s, [req[s] EXCEPT !.pc = "notify", !.local.status = "signed"])
                 /\ hist' = [hist EXCEPT !.signedWrites[d] = Cap(@)]
            ELSE /\ docs' = docs
                 /\ req' = Done(s, "err500")
                 /\ hist' = hist
       ELSE /\ req' = Done(s, "err500")
            /\ docs' = [docs EXCEPT ![d] = AfterNotify(@, FALSE)]
            /\ hist' = hist
    /\ UNCHANGED <<signatures, unique, tokenStore, minted, now, mails, ops, integrity, call, assembly>>

\* signatureController.js:257-292 getSignatureInfo: tokenService.verifyToken,
\* then reads only
getSignatureInfo(t) ==
    /\ ops < MaxOps
    /\ ops' = ops + 1
    /\ tokenStore' = verifyTokenStore(tokenStore, t, now)
    /\ hist' = IF verifyTokenOk(tokenStore, t, now)
               THEN [hist EXCEPT !.verifiedOk[t] = Cap(@)] ELSE hist
    /\ req' = Cleared
    /\ UNCHANGED <<docs, signatures, unique, minted, now, mails, integrity, call, assembly>>

(* ------------------------------ time ----------------------------------- *)
\* tokenService.js:11 setInterval(() => this.cleanupExpiredTokens(), ...)
Sweep ==
    /\ tokenStore' = cleanupExpiredTokens(tokenStore, now)
    /\ tokenStore' # tokenStore
    /\ UNCHANGED <<docs, signatures, unique, minted, now, req, mails, hist, ops, integrity, call, assembly>>

\* Date.now() is read only by storeToken, verifyToken and
\* cleanupExpiredTokens, each time against an expiresAt: the clock is counted
\* while the store holds an entry that has not expired yet
Tick ==
    /\ now < MaxTime
    /\ \E t \in DOMAIN tokenStore : ~(tokenStore[t].expiresAt < now)
    /\ now' = now + 1
    /\ UNCHANGED <<docs, signatures, unique, tokenStore, minted, req, mails, hist, ops,
                   integrity, call, assembly>>

Next ==
    \/ \E d \in DocIds, list \in SignerLists : uploadDocument(d, list)
    \/ \E s \in Slots, u \in Users, d \in DocIds : sendDocumentBegin(s, u, d)
    \/ \E s \in Slots, u \in Users, d \in DocIds : rejectDocumentBegin(s, u, d)
    \/ \E s \in Slots, u \in Users, d \in DocIds : updateDocumentBegin(s, u, d)
    \/ \E s \in Slots, u \in Users, d \in DocIds : deleteDocumentBegin(s, u, d)
    \/ \E s \in Slots : sendDocumentSave(s)
    \/ \E s \in Slots : sendDocumentNotify(s)
    \/ \E s \in Slots : rejectDocumentSave(s)
    \/ \E s \in Slots : rejectDocumentNotify(s)
    \/ \E s \in Slots, list \in SignerLists : updateDocumentSave(s, list)
    \/ \E s \in Slots : deleteDocumentSave(s)
    \/ \E s \in Slots, u \in Users, d \in DocIds, e \in Emails, bodyOk \in BOOLEAN :
          addSignatureBegin(s, u, d, e, bodyOk)
    \/ \E s \in Slots, t \in Tokens : signWithTokenBegin(s, t)
    \/ \E s \in Slots, bodyOk \in BOOLEAN : signWithTokenRead(s, bodyOk)
    \/ \E s \in Slots : SignatureCreate(s)
    \/ \E s \in Slots : SignatureSave(s)
    \/ \E s \in Slots : Completion(s)
    \/ \E t \in Tokens : getSignatureInfo(t)
    \/ Sweep
    \/ Tick

Spec == Init /\ [][Next]_vars

\* the deployment in which the unique index on Signature exists
InitUnique ==
    InitWorkflow /\ unique = "built" /\ integrity = NoIntegrity /\ assembly = NoAssembly

SpecUnique == InitUnique /\ [][Next]_vars

(* ------------- signer lists as a request body can carry them ----------- *)
\* part_004:21-29, 52 and 164-166: the signers array of req.body is stored as
\* it is parsed, nothing compares the emails of its entries
BodyLists == SignerLists \cup {<<"a", "a">>}

\* the authenticated requests on a document whose signer list comes from
\* such a body
NextBody ==
    \/ \E d \in DocIds, list \in BodyLists : uploadDocument(d, list)
    \/ \E s \in Slots, u \in Users, d \in DocIds : updateDocumentBegin(s, u, d)
    \/ \E s \in Slots, list \in BodyLists : updateDocumentSave(s, list)
    \/ \E s \in Slots, u \in Users, d \in DocIds : sendDocumentBegin(s, u, d)
    \/ \E s \in Slots : sendDocumentSave(s)
    \/ \E s \in Slots : sendDocumentNotify(s)
    \/ \E s \in Slots, u \in Users, d \in DocIds, e \in Emails, bodyOk \in BOOLEAN :
          addSignatureBegin(s, u, d, e, bodyOk)
    \/ \E s \in Slots : SignatureCreate(s)
    \/ \E s \in Slots : SignatureSave(s)
    \/ \E s \in Slots : Completion(s)

SpecBody == Init /\ [][NextBody]_vars

(* ------------------ generateSignedPDF on Signature records ------------- *)
SignatureRecords ==
    [pageNumber : 1..(MaxPages + 1), image : {"png", "jpg", "bad"},
     drawable : BOOLEAN]

AssemblyInputs ==
    UNION {[1..n -> SignatureRecords] : n \in 1..MaxSigs}

\* pdfService.js:26-107 generateSignedPDF(originalPath, signatures)
generateSignedPDFCall ==
    /\ ~assembly.done
    /\ LET made == generateSignedPDFOf(assembly.pageCount, assembly.signatures) IN
       assembly' = [assembly EXCEPT !.done = TRUE, !.file = made.file,
                                    !.drawn = made.drawn]
    /\ UNCHANGED <<docs, signatures, unique, tokenStore, minted, now, req, mails, hist, ops,
                   integrity, call>>

InitPdf ==
    /\ InitWorkflow
    /\ unique = "unknown"
    /\ integrity = NoIntegrity
    /\ assembly \in {[NoAssembly EXCEPT !.pageCount = n, !.signatures = sigs] :
                        n \in 1..MaxPages, sigs \in AssemblyInputs}

NextPdf == generateSignedPDFCall

SpecPdf == InitPdf /\ [][NextPdf]_vars

(* ------------------- verifySignature on a signed file ------------------ *)
Workflow == <<docs, signatures, unique, tokenStore, minted, now, req, mails, hist, ops,
              call, assembly>>

\* signatureController.js:83-101 and 205-222 with pdfService.js:95-101: the
\* signed file as completion stores it when assembly returns
writeSignedFile(n) ==
    /\ integrity.signedFile = NoFile
    /\ integrity' = [integrity EXCEPT
                        !.signedFile = SignedBytes(integrity.original, n),
                        !.written = SignedBytes(integrity.original, n)]
    /\ UNCHANGED Workflow

\* the file at signedFile.path is overwritten with other bytes
alterSignedFile(content) ==
    /\ integrity.signedFile # NoFile
    /\ content # integrity.signedFile
    /\ integrity' = [integrity EXCEPT !.signedFile = content,
                                      !.documentIntact = "none"]
    /\ UNCHANGED Workflow

\* signatureController.js:307-343 verifySignature
verifySignature ==
    /\ integrity.documentIntact = "none"
    /\ integrity' = [integrity EXCEPT !.documentIntact =
                        IF documentIntact(integrity.fileHash, integrity.signedFile)
                        THEN "true" ELSE "false"]
    /\ UNCHANGED Workflow

InitVerify ==
    /\ InitWorkflow
    /\ unique = "unknown"
    /\ integrity \in {Uploaded(original) : original \in 1..MaxContent}
    /\ assembly = NoAssembly

NextVerify ==
    \/ \E n \in 1..MaxDrawn : writeSignedFile(n)
    \/ \E content \in FileContents : alterSignedFile(content)
    \/ verifySignature

SpecVerify == InitVerify /\ [][NextVerify]_vars

(* --------------------- TokenService called directly -------------------- *)
MaxIssued == 2       \* storeToken calls in one behaviour

Flow == <<docs, signatures, unique, req, mails, hist, ops, integrity, assembly>>

\* tokenService.js:20-33 storeToken(token, {documentId, email}) with a newly
\* generated token (tokenService.js:16-18)
issue(d, e) ==
    /\ minted < MaxIssued
    /\ tokenStore' = storeToken(tokenStore, minted + 1, d, e, now)
    /\ minted' = minted + 1
    /\ call' = [call EXCEPT !.op = "storeToken", !.token = minted + 1, !.at = now,
                            !.before = tokenStore, !.after = tokenStore',
                            !.result = <<>>,
                            !.issued = Append(@, <<d, e, now>>)]
    /\ UNCHANGED <<Flow, now>>

\* tokenService.js:36-58 verifyToken(token)
verify(t) ==
    /\ tokenStore' = verifyTokenStore(tokenStore, t, now)
    /\ call' = [call EXCEPT !.op = "verifyToken", !.token = t, !.at = now,
                            !.before = tokenStore, !.after = tokenStore',
                            !.result = verifyToken(tokenStore, t, now)]
    /\ UNCHANGED <<Flow, minted, now>>

\* tokenService.js:61-70 invalidateToken(token)
invalidate(t) ==
    /\ tokenStore' = invalidateToken(tokenStore, t)
    /\ call' = [call EXCEPT !.op = "invalidateToken", !.token = t, !.at = now,
                            !.before = tokenStore, !.after = tokenStore',
                            !.result = <<>>,
                            !.spent = IF t \in 1..minted THEN @ \cup {t} ELSE @]
    /\ UNCHANGED <<Flow, minted, now>>

InitToken ==
    InitWorkflow /\ unique = "unknown" /\ integrity = NoIntegrity /\ assembly = NoAssembly

NextToken ==
    \/ \E d \in DocIds, e \in Emails : issue(d, e)
    \/ \E t \in Tokens : verify(t)
    \/ \E t \in Tokens : invalidate(t)
    \/ Sweep
    \/ Tick

SpecToken == InitToken /\ [][NextToken]_vars

(* ----------------------------- properties ------------------------------ *)
Submissions == {"addSignature", "signWithToken"}

InFlight(s) == req[s].pc \notin {"idle", "done"}

NoSubmissionInFlight(d) ==
    \A s \in Slots : ~(InFlight(s) /\ req[s].kind \in Submissions /\ req[s].doc = d)

AllowedTransitions ==
    {<<"draft", "sent">>, <<"sent", "signed">>, <<"sent", "rejected">>}

\* C1: every change of a document's persisted status is draft->sent,
\* sent->signed or sent->rejected, and a document is created in draft; signed
\* and rejected are never left.
C1_StatusTransitions ==
    [][\A d \in DocIds :
          /\ (~docs[d].born /\ docs'[d].born) => docs'[d].status = "draft"
          /\ (docs[d].born /\ docs'[d].status # docs[d].status)
                => <<docs[d].status, docs'[d].status>> \in AllowedTransitions]_vars

\* C2: for every document the final artifact is assembled at most once:
\* generateSignedPDF is invoked at most once and signedFile is written at
\* most once.
C2_AssembledAtMostOnce ==
    \A d \in DocIds : hist.pdfCalls[d] <= 1 /\ hist.signedWrites[d] <= 1

\* C3: no completion is missed: when no submission is in flight, every signer
\* of a sent document is marked signed and assembly did not fail, the
\* document is signed and has its signed file.
C3_NoMissedCompletion ==
    \A d \in DocIds :
        ( /\ docs[d].exists
          /\ docs[d].status \in {"sent", "signed"}
          /\ Len(docs[d].signers) > 0
          /\ allSigned(docs[d].signers)
          /\ NoSubmissionInFlight(d)
          /\ ~hist.pdfFailed[d] )
        => (docs[d].status = "signed" /\ docs[d].signedFile)

\* C4: at most one Signature record exists per (documentId, signerEmail).
C4_OneSignaturePerSigner ==
    \A i, j \in 1..Len(signatures) :
        ( /\ signatures[i].documentId = signatures[j].documentId
          /\ signatures[i].signerEmail = signatures[j].signerEmail )
        => i = j

\* C5: a signing token is consumed at most once: at most one signWithToken
\* request carrying a given token returns success.
C5_TokenConsumedOnce ==
    \A t \in Tokens : hist.tokOk[t] <= 1

C7_VerifiesAtMostOnce ==
    \A t \in Tokens : hist.verifiedOk[t] <= 1

\* C7 as amended: verifyToken succeeds any number of times for a stored,
\* unexpired token, until a submission carrying the token has succeeded; from
\* then on no verify of that token succeeds.
C7_NoVerifyAfterSubmission ==
    \A t \in Tokens : hist.tokOk[t] >= 1 => ~verifyTokenOk(tokenStore, t, now)

C7_Witness ==
    \E t \in Tokens :
        /\ hist.tokOk[t] >= 1
        /\ hist.verifiedOk[t] = 2
        /\ t \in DOMAIN tokenStore
        /\ ~(tokenStore[t].expiresAt < now)

\* C8: sequential scenario: a token submission that is not the last one marks
\* its signer signed and leaves the status sent; the token submission of the
\* last outstanding signer ends with the document signed, its signed file
\* stored and the owner notified.
C8_SequentialScenario ==
    \A s \in Slots :
        ( /\ req[s].pc = "done"
          /\ req[s].kind = "signWithToken"
          /\ req[s].sig # 0
          /\ \A r \in Slots : ~InFlight(r)
          /\ docs[req[s].doc].exists
          /\ docs[req[s].doc].status \in {"sent", "signed"}
          /\ docs[req[s].doc].ver = 0 )
        => IF allSigned(docs[req[s].doc].signers)
           THEN /\ req[s].res = "ok"
                /\ docs[req[s].doc].status = "signed"
                /\ docs[req[s].doc].signedFile
                /\ <<"signed", "owner">> \in mails
           ELSE /\ req[s].res = "ok"
                /\ docs[req[s].doc].status = "sent"
                /\ docs[req[s].doc].signers[req[s].idx].signed

\* C9: when generateSignedPDF fails during completion the request ends with
\* an error and the document does not become signed: its status stays sent
\* (or rejected, when a reject request has rejected it) and no signed file is
\* stored.
C9_FailedAssemblyLeavesSent ==
    \A s \in Slots :
        req[s].pdf = "error"
        => /\ req[s].pc = "done"
           /\ req[s].res = "err500"
           /\ docs[req[s].doc].status \in {"sent", "rejected"}
           /\ ~docs[req[s].doc].signedFile

C9_Witness ==
    \E s \in Slots :
        /\ req[s].pdf = "error"
        /\ req[s].pc = "done"
        /\ docs[req[s].doc].status = "sent"
        /\ allSigned(docs[req[s].doc].signers)

\* C10: after a failed assembly (status sent, every signer recorded) a retry
\* is possible: some submission is still accepted for the document.
C10_RetryPossible ==
    \A d \in DocIds :
        ( /\ hist.pdfFailed[d]
          /\ docs[d].exists
          /\ docs[d].status = "sent"
          /\ Len(docs[d].signers) > 0
          /\ allSigned(docs[d].signers)
          /\ NoSubmissionInFlight(d) )
        => \E e \in Emails : SubmitCheck(docs[d], e, TRUE) = "ok"

DocKinds == {"send", "reject", "update", "delete"}

\* this step serves a new request in slot s
Starts(s) == ops' = ops + 1 /\ Free(s) /\ req'[s].kind # "none"

\* this step answers the request of slot s
Answers(s) == req'[s].pc = "done" /\ (Starts(s) \/ InFlight(s))

\* C11: every Signature recorded is for an entry of the document's signer
\* list; on the authenticated path its signer email is the email of the
\* authenticated account, on the token path it is for the document and email
\* the token was issued for.
C11_OnlyInvitedSigner ==
    [][\A s \in Slots :
          ( /\ req[s].pc = "create"
            /\ req'[s].pc = "save"
            /\ Len(signatures') = Len(signatures) + 1 )
          => LET sig == signatures'[Len(signatures')] IN
             /\ findSigner(docs[sig.documentId].signers, sig.signerEmail) # 0
             /\ req[s].kind = "addSignature"
                   => sig.signerEmail = UserEmail(req[s].user)
             /\ (req[s].kind = "signWithToken" /\ req[s].token \in DOMAIN tokenStore)
                   => /\ sig.documentId = tokenStore[req[s].token].documentId
                      /\ sig.signerEmail = tokenStore[req[s].token].email]_vars

\* C12: a send, reject, update or delete request of an account that is
\* neither the owner nor an administrator is answered 403 and leaves the
\* documents unchanged; every write of these handlers to a document is made
\* for the owner or an administrator.
C12_OwnerOrAdminOnly ==
    [][\A s \in Slots :
          /\ ( /\ Starts(s)
               /\ req'[s].kind \in DocKinds
               /\ docs[req'[s].doc].exists
               /\ req'[s].user \notin {NoUser, docs[req'[s].doc].owner} )
             => ( /\ req'[s].pc = "done"
                  /\ req'[s].res = "err403"
                  /\ docs' = docs )
          /\ ( /\ InFlight(s)
               /\ req[s].kind \in DocKinds
               /\ req'[s] # req[s]
               /\ docs' # docs )
             => req[s].user = docs[req[s].doc].owner]_vars

C12_Witness ==
    \E s \in Slots :
        /\ req[s].pc = "done"
        /\ req[s].kind = "send"
        /\ req[s].res = "err403"
        /\ req[s].user = "other"
        /\ docs[req[s].doc].exists
        /\ docs[req[s].doc].status = "draft"
        /\ Len(docs[req[s].doc].signers) > 0

\* C13: a submission, on either path, for a signer whose signed flag is
\* already true is answered with an error (400) and creates no Signature and
\* leaves documents and token store unchanged.
C13_DoubleSubmissionGuard ==
    [][\A s \in Slots :
          /\ ( /\ Starts(s)
               /\ req'[s].kind = "addSignature"
               /\ docs[req'[s].doc].exists
               /\ docs[req'[s].doc].status = "sent"
               /\ req'[s].idx # 0
               /\ docs[req'[s].doc].signers[req'[s].idx].signed )
             => ( /\ req'[s].pc = "done"
                  /\ req'[s].res = "err400"
                  /\ UNCHANGED <<docs, signatures, tokenStore>> )
          /\ ( /\ req[s].pc = "read"
               /\ req'[s] # req[s]
               /\ docs[req[s].doc].exists
               /\ docs[req[s].doc].status = "sent"
               /\ findSigner(docs[req[s].doc].signers, req[s].email) # 0
               /\ docs[req[s].doc].signers[
                      findSigner(docs[req[s].doc].signers, req[s].email)].signed )
             => ( /\ req'[s].pc = "done"
                  /\ req'[s].res = "err400"
                  /\ UNCHANGED <<docs, signatures, tokenStore>> )]_vars

C13_Witness ==
    \E s \in Slots :
        /\ req[s].pc = "done"
        /\ req[s].kind = "addSignature"
        /\ req[s].res = "err400"
        /\ req[s].idx # 0
        /\ docs[req[s].doc].exists
        /\ docs[req[s].doc].status = "sent"
        /\ req[s].idx <= Len(docs[req[s].doc].signers)
        /\ docs[req[s].doc].signers[req[s].idx].signed
        /\ Len(signatures) = 1

\* C14: send of the owner or an administrator on a draft without signers is
\* answered with an error (400); the status stays draft, no token is minted
\* and no notification is dispatched.
C14_SendWithoutSigners ==
    [][\A s \in Slots :
          ( /\ Starts(s)
            /\ req'[s].kind = "send"
            /\ req'[s].user \in {NoUser, docs[req'[s].doc].owner}
            /\ docs[req'[s].doc].exists
            /\ docs[req'[s].doc].status = "draft"
            /\ Len(docs[req'[s].doc].signers) = 0 )
          => ( /\ req'[s].pc = "done"
               /\ req'[s].res = "err400"
               /\ UNCHANGED <<docs, tokenStore, minted, mails>> )]_vars

C14_Witness ==
    \E s \in Slots :
        /\ req[s].pc = "done"
        /\ req[s].kind = "send"
        /\ req[s].res = "err400"
        /\ docs[req[s].doc].exists
        /\ docs[req[s].doc].status = "draft"
        /\ Len(docs[req[s].doc].signers) = 0
        /\ mails = {}

\* C15: a transition requested from the wrong status is answered with an
\* error (400) and changes nothing: send on a document that is not draft,
\* reject on a document that is not sent, a submission on either path on a
\* document that is not sent.
C15_WrongStatusRefused ==
    [][\A s \in Slots :
          /\ ( /\ Starts(s)
               /\ req'[s].kind \in DocKinds
               /\ req'[s].user \in {NoUser, docs[req'[s].doc].owner}
               /\ docs[req'[s].doc].exists
               /\ \/ req'[s].kind = "send" /\ docs[req'[s].doc].status # "draft"
                  \/ req'[s].kind = "reject" /\ docs[req'[s].doc].status # "sent" )
             => ( /\ req'[s].pc = "done"
                  /\ req'[s].res = "err400"
                  /\ UNCHANGED <<docs, signatures>> )
          /\ ( /\ Starts(s)
               /\ req'[s].kind = "addSignature"
               /\ docs[req'[s].doc].exists
               /\ docs[req'[s].doc].status # "sent" )
             => ( /\ req'[s].pc = "done"
                  /\ req'[s].res = "err400"
                  /\ UNCHANGED <<docs, signatures>> )
          /\ ( /\ req[s].pc = "read"
               /\ req'[s] # req[s]
               /\ docs[req[s].doc].exists
               /\ docs[req[s].doc].status # "sent" )
             => ( /\ req'[s].pc = "done"
                  /\ req'[s].res = "err400"
                  /\ UNCHANGED <<docs, signatures>> )]_vars

C15_Witness ==
    \E s \in Slots :
        /\ req[s].pc = "done"
        /\ req[s].kind = "reject"
        /\ req[s].res = "err400"
        /\ docs[req[s].doc].exists
        /\ docs[req[s].doc].status = "rejected"

\* C16: no key of the token store is a value that verifyToken accepts.
C16_PlaintextNeverStored ==
    \A t \in DOMAIN tokenStore : ~verifyTokenOk(tokenStore, t, now)

\* C17: when the audit write of a handler fails, the handler still answers
\* success and what it wrote stays: the step that logs writes nothing but
\* the handler's own save.
C17_AuditFailureSwallowed ==
    [][\A s \in Slots :
          ( /\ Answers(s)
            /\ req'[s].audit \notin {"none", "written"} )
          => ( /\ req'[s].res = "ok"
               /\ req'[s].audit = "lost"
               /\ UNCHANGED <<signatures, tokenStore>>
               /\ IF req'[s].kind = "delete"
                  THEN ~docs'[req'[s].doc].exists
                  ELSE IF req'[s].kind = "update"
                  THEN docs'[req'[s].doc].ver = docs[req'[s].doc].ver + 1
                  ELSE IF req'[s].kind \in Submissions
                  THEN docs'[req'[s].doc].signers[req'[s].idx].signed
                  ELSE docs' = docs )]_vars

C17_Witness ==
    \E s \in Slots :
        /\ req[s].pc = "done"
        /\ req[s].kind = "send"
        /\ req[s].audit = "lost"
        /\ req[s].res = "ok"
        /\ docs[req[s].doc].status = "sent"

\* C18: a notification that fails undoes nothing: the step in which the
\* signing-request, signed or rejection notification fails leaves documents
\* and Signatures as they were committed.
C18_NotificationFailureKeepsState ==
    [][\A s \in Slots :
          ( /\ req[s].pc = "notify"
            /\ req'[s].pc = "done"
            /\ req'[s].res # "ok" )
          => UNCHANGED <<docs, signatures>>]_vars

C18_Witness ==
    \E s \in Slots :
        /\ req[s].pc = "done"
        /\ req[s].kind = "reject"
        /\ req[s].res = "err500"
        /\ docs[req[s].doc].exists
        /\ docs[req[s].doc].status = "rejected"
        /\ docs[req[s].doc].rejectionReason

Refusals == {"err400", "err403", "err404"}

ExpiredEntryRemoved ==
    \E t \in DOMAIN tokenStore :
        /\ tokenStore[t].expiresAt < now
        /\ tokenStore' = [u \in (DOMAIN tokenStore) \ {t} |-> tokenStore[u]]

C20_IntegrityCheck ==
    (integrity.written # NoFile /\ integrity.documentIntact # "none")
    => (integrity.documentIntact = "true" <=> integrity.signedFile = integrity.written)

\* the emails of a signers array, in order
SignerEmails(signers) == [i \in 1..Len(signers) |-> signers[i].email]

\* C21: update and delete take effect only on a draft: a document whose
\* persisted status is not draft is not deleted and its signer list is not
\* replaced, in any step, also when the update or delete request read the
\* document while it was a draft.
C21_DraftOnlyUpdateDelete ==
    [][\A d \in DocIds :
          (docs[d].exists /\ docs[d].status # "draft")
          => /\ docs'[d].exists
             /\ SignerEmails(docs'[d].signers) = SignerEmails(docs[d].signers)]_vars

\* the persisted signed flag of the signer e of document d
SignedFlag(d, e) ==
    \E i \in 1..Len(docs[d].signers) :
        docs[d].signers[i].email = e /\ docs[d].signers[i].signed

\* C22: a submission stores the Signature and sets the signer's flag
\* both-or-neither: while no submission for a document is in flight, a
\* Signature exists for (document, email) exactly when that signer's
\* persisted signed flag is true.
C22_SignatureIffSigned ==
    \A d \in DocIds, e \in Emails :
        (docs[d].born /\ NoSubmissionInFlight(d))
        => (SameKey(signatures, d, e) <=> (docs[d].exists /\ SignedFlag(d, e)))


\* C23: the list handed to generateSignedPDF at completion is the stored
\* Signature records of the document (with position, signature data, signer
\* name and signed-at), all of them and exactly one per signer.
C23_AssemblyInput ==
    [][\A s \in Slots :
          (req[s].pc = "pdf" /\ req'[s] # req[s])
          => LET input == AssemblyInput(req[s].local)
                 d == req[s].doc IN
             /\ \A i \in 1..Len(input) : input[i].populated
             /\ {input[i].ref : i \in 1..Len(input)}
                   = {j \in 1..Len(signatures) : signatures[j].documentId = d}
             /\ \A k \in 1..Len(docs[d].signers) :
                   Cardinality({i \in 1..Len(input) :
                       signatures[input[i].ref].signerEmail
                           = docs[d].signers[k].email}) = 1]_vars


\* the tokens of the store that verifyToken accepts for document d and email e
ActiveTokens(store, d, e, t) ==
    {k \in DOMAIN store :
        /\ verifyTokenOk(store, k, t)
        /\ store[k].documentId = d
        /\ store[k].email = e}

\* C24: when a send has succeeded, every signer of the list it sent has
\* exactly one unused, unexpired token in the token store that verifies to
\* the document and that signer's email, whatever uploads and updates came
\* before the send.
C24_TokenPerSigner ==
    [][\A s \in Slots :
          ( /\ req[s].pc = "notify"
            /\ req[s].kind = "send"
            /\ req'[s].pc = "done"
            /\ req'[s].res = "ok" )
          => \A i \in 1..Len(req[s].local.signers) :
                Cardinality(ActiveTokens(tokenStore', req[s].doc,
                                         req[s].local.signers[i].email, now')) = 1]_vars


\* the signing requests handed to the mail transport for the email e
Requests(sent, e) == {m \in sent : m[1] = "request" /\ m[2] = e}

\* C25: a successful send has dispatched exactly one signing request to each
\* signer of the document, and the token in its signing URL is one that
\* verifyToken accepts and that is stored for that document and that email.
C25_RequestCarriesToken ==
    [][\A s \in Slots :
          ( /\ req[s].pc = "notify"
            /\ req[s].kind = "send"
            /\ req'[s].pc = "done"
            /\ req'[s].res = "ok" )
          => \A i \in 1..Len(req[s].local.signers) :
                LET e == req[s].local.signers[i].email IN
                /\ Cardinality(Requests(mails', e)) = 1
                /\ \A m \in Requests(mails', e) :
                      m[3] \in ActiveTokens(tokenStore', req[s].doc, e, now')]_vars


\* C26: when a submission has succeeded, on the token path or the
\* authenticated path, no token stored for that document and that signer is
\* accepted by verifyToken any more.
C26_TokenSpentAfterSubmission ==
    [][\A s \in Slots :
          ( /\ Answers(s)
            /\ req'[s].kind \in Submissions
            /\ req'[s].res = "ok" )
          => ActiveTokens(tokenStore', req'[s].doc,
                          signatures'[req'[s].sig].signerEmail, now') = {}]_vars


\* the store without the entry of token t
Without(store, t) == [u \in (DOMAIN store) \ {t} |-> store[u]]

C28_VerifyRoundTrip ==
    call.op = "verifyToken"
    => LET t == call.token
           live == /\ t \in 1..Len(call.issued)
                   /\ ~(call.issued[t][3] + TokenTtl < call.at)
                   /\ t \notin call.spent IN
       call.result = IF live THEN <<call.issued[t][1], call.issued[t][2]>>
                     ELSE <<>>

C28_Witness ==
    /\ call.op = "verifyToken"
    /\ call.result = <<1, "b">>
    /\ call.at > 0
    /\ call.spent # {}
    /\ Len(call.issued) = 2

\* C29: invalidateToken applied a second time leaves the token store as the
\* first application left it, and applied to a token that is not stored it
\* leaves the store unchanged.
C29_InvalidateIdempotent ==
    call.op = "invalidateToken"
    => /\ invalidateToken(call.after, call.token) = call.after
       /\ call.token \notin DOMAIN call.before => call.after = call.before
       /\ call.token \in DOMAIN call.before
             => call.after = [call.before EXCEPT ![call.token].used = TRUE]

C29_Witness ==
    /\ call.op = "invalidateToken"
    /\ call.token \in DOMAIN call.before
    /\ call.before[call.token].used
    /\ call.after = call.before
    /\ \E u \in DOMAIN call.after : ~call.after[u].used


\* the request of slot s has committed its transition or submission when
\* this step answers it
Committed(s) ==
    \/ req[s].kind \in {"send", "reject"} /\ req[s].pc = "notify"
    \/ req[s].kind \in {"update", "delete"} /\ req[s].pc = "save" /\ docs' # docs
    \/ req[s].kind \in Submissions /\ req'[s].res = "ok"

\* C30: a handler that has committed a transition (update, send, reject,
\* delete) or a successful submission has called AuditLog.log for it when it
\* answers, also when its notification failed.
C30_AuditedOnce ==
    [][\A s \in Slots :
          (InFlight(s) /\ req'[s].pc = "done" /\ Committed(s))
          => req'[s].audit \in {"written", "lost"}]_vars


\* C31: every call of AuditLog.log made by a handler is accepted by the
\* audit store when the store is available: the record it passes, with its
\* actor (null on the token path) and its action, is one AuditLog.create
\* writes.
C31_AuditAccepted ==
    [][\A s \in Slots :
          (InFlight(s) /\ req'[s].pc = "done" /\ req'[s].audit # "none")
          => auditCreate(req[s].user, AuditAction(req[s].kind), TRUE) = "written"]_vars


\* C32: in every state a document has a signed file exactly when its status
\* is signed, and a rejection reason only when its status is rejected.
C32_FileIffSigned ==
    \A d \in DocIds :
        docs[d].born
        => /\ docs[d].signedFile <=> docs[d].status = "signed"
           /\ docs[d].rejectionReason => docs[d].status = "rejected"


\* C33: in every state a document has at most one signer entry per email,
\* so that a submission for the email of an entry marks that entry signed.
C33_OneEntryPerEmail ==
    \A d \in DocIds :
        docs[d].born
        => \A i, j \in 1..Len(docs[d].signers) :
              docs[d].signers[i].email = docs[d].signers[j].email => i = j


\* C34: a signer's persisted signed flag, once true, is true in every later
\* state: no step takes the entry away or sets its flag back to false.
C34_SignedNeverReverts ==
    [][\A d \in DocIds : \A i \in 1..Len(docs[d].signers) :
          docs[d].signers[i].signed
          => /\ i <= Len(docs'[d].signers)
             /\ docs'[d].signers[i].email = docs[d].signers[i].email
             /\ docs'[d].signers[i].signed]_vars


\* C35: the sweep removes exactly the entries of the token store whose
\* expiry is in the past, used or not; it leaves every other entry as it is,
\* used flag included, and changes nothing else.
C35_SweepRemovesExpired ==
    [][(tokenStore' # tokenStore /\ call' = call)
       => /\ DOMAIN tokenStore'
                = {t \in DOMAIN tokenStore : ~(tokenStore[t].expiresAt < now)}
          /\ \A t \in DOMAIN tokenStore' : tokenStore'[t] = tokenStore[t]
          /\ UNCHANGED <<docs, signatures, req, mails, minted, now>>]_vars

\* a sweep has run since the last call: an expired entry is gone, a used
\* entry that has not expired is still there
C35_Witness ==
    /\ call.op # "none"
    /\ tokenStore # call.after
    /\ \E t \in DOMAIN call.after : t \notin DOMAIN tokenStore
    /\ \E u \in DOMAIN tokenStore : tokenStore[u].used /\ ~(tokenStore[u].expiresAt < now)


\* the signature sig cannot be put on the page as an image with its name
CannotDraw(pageCount, sig) ==
    \/ sig.image = "bad"
    \/ ~sig.drawable
    \/ sig.pageNumber \notin 1..pageCount

\* C36: assembly tolerates a failure of one signature: for a signature whose
\* image cannot be decoded, or that cannot be drawn, the signer's name is
\* rendered as text at its placement, every other signature is processed and
\* a file is returned.
C36_PerSignatureTolerance ==
    assembly.done
    => /\ assembly.file
       /\ Len(assembly.drawn) = Len(assembly.signatures)
       /\ \A i \in 1..Len(assembly.drawn) :
             assembly.drawn[i]
                = IF CannotDraw(assembly.pageCount, assembly.signatures[i])
                  THEN "text" ELSE "image"


\* C37: no Signature is recorded, and no signer flag set, for a document
\* whose persisted status is not sent at the moment of the write, also when
\* the submission read the document while it was sent.
C37_RecordedOnlyWhileSent ==
    [][\A d \in DocIds :
          ( \/ \E i \in 1..Len(signatures') :
                  /\ i > Len(signatures)
                  /\ signatures'[i].documentId = d
            \/ \E i \in 1..Len(docs[d].signers) :
                  /\ i <= Len(docs'[d].signers)
                  /\ ~docs[d].signers[i].signed
                  /\ docs'[d].signers[i].signed )
          => docs[d].status = "sent"]_vars


\* C38: of the send requests on a draft, one performs the transition and
\* the signers are notified once: a send writes status sent only to a
\* document that is still draft when it writes, and a send that has
\* dispatched all its signing requests has dispatched none to a signer who
\* had been sent one before.
C38_SingleSend ==
    [][\A s \in Slots :
          /\ ( /\ req[s].kind = "send"
               /\ req[s].pc = "save"
               /\ req'[s].pc = "notify" )
             => docs[req[s].doc].status = "draft"
          /\ ( /\ req[s].kind = "send"
               /\ req[s].pc = "notify"
               /\ req'[s].pc = "done"
               /\ req'[s].res = "ok" )
             => \A i \in 1..Len(req[s].local.signers) :
                   Requests(mails, req[s].local.signers[i].email) = {}]_vars


\* C39: while no submission for a document is in flight, every entry of the
\* token store with used = true is for a document and an email whose signer
\* flag is persisted as true.
C39_UsedOnlyIfSigned ==
    \A t \in DOMAIN tokenStore :
        (tokenStore[t].used /\ NoSubmissionInFlight(tokenStore[t].documentId))
        => SignedFlag(tokenStore[t].documentId, tokenStore[t].email)


\* C40: every token that verifyToken accepts is for a document that exists
\* and for an email that is in that document's signer list.
C40_TokenHasSigner ==
    \A t \in DOMAIN tokenStore :
        verifyTokenOk(tokenStore, t, now)
        => /\ docs[tokenStore[t].documentId].exists
           /\ findSigner(docs[tokenStore[t].documentId].signers,
                         tokenStore[t].email) # 0


====
